---- MODULE Spec2Model ----
(***************************************************************************)
(* Model of VisualizationApp (src/js/visualization.js): the five layout    *)
(* computations, the tween-driven transform, the layout selector and the   *)
(* animation loop, together with the record provider that feeds it.        *)
(*                                                                         *)
(* Scene coordinates are integers in scene units.  Angles and the values   *)
(* of sin/cos are fixed-point numbers with three decimals (Milli).         *)
(* Time is in milliseconds.                                                *)
(***************************************************************************)
EXTENDS Integers, Sequences, FiniteSets, TLC

VARIABLES
  data,           \* dataManager.data: the records of the last load
  objects,        \* this.objects: the managed objects, one per record
  targets,        \* this.targets: the five target sets
  currentLayout,  \* this.currentLayout
  tweens,         \* the interpolations registered with TWEEN, oldest first
  rendered,       \* whether the last operation invoked this.render()
  thrown,         \* the error the last operation raised to its caller
  requested,      \* the targets argument of the last transform call
  cancelled,      \* how many interpolations the last TWEEN.removeAll() dropped
  transforms      \* how many times transform has run

vars == <<data, objects, targets, currentLayout, tweens, rendered, thrown,
          requested, cancelled, transforms>>

(***************************************************************************)
(* Bounds of the model.                                                    *)
(***************************************************************************)
\* Largest record count of a load in the animated application (Spec).
MaxRecords == 2
\* Largest record count of a small load in the layout runs (LayoutSpec).
MaxLoad == 24
\* Records beyond the nominal capacity of 200 in the layout runs (LayoutSpec).
MaxOverflow == 3
\* Largest record count of a reload in the layout runs (LayoutSpec).
MaxReload == 3
\* Number of transform runs the model follows.
MaxTransforms == 2

(***************************************************************************)
(* Fixed-point arithmetic standing for the Math.* calls of the layouts.    *)
(***************************************************************************)
Milli == 1000
\* Math.PI in thousandths.
PiMilli == 3142
HalfPiMilli == PiMilli \div 2
TwoPiMilli == 2 * PiMilli
\* Math.PI in millionths, used under the square root.
PiMicro == 3141593

\* Division rounding toward zero (the fixed-point products are signed).
Quot(a, b) == IF a >= 0 THEN a \div b ELSE -((-a) \div b)

\* sin on [0, pi/2]: Taylor polynomial up to x^9.
SinQ(x) ==
  LET x2 == (x * x) \div Milli
      t3 == ((x * x2) \div Milli) \div 6
      t5 == ((t3 * x2) \div Milli) \div 20
      t7 == ((t5 * x2) \div Milli) \div 42
      t9 == ((t7 * x2) \div Milli) \div 72
  IN  x - t3 + t5 - t7 + t9

\* cos on [0, pi/2]: Taylor polynomial up to x^10.
CosQ(x) ==
  LET x2  == (x * x) \div Milli
      t2  == x2 \div 2
      t4  == ((t2 * x2) \div Milli) \div 12
      t6  == ((t4 * x2) \div Milli) \div 30
      t8  == ((t6 * x2) \div Milli) \div 56
      t10 == ((t8 * x2) \div Milli) \div 90
  IN  Milli - t2 + t4 - t6 + t8 - t10

\* Math.sin of an angle in thousandths of a radian, result in thousandths.
Sin(a) ==
  LET r == a % TwoPiMilli
  IN  IF r <= HalfPiMilli THEN SinQ(r)
      ELSE IF r <= PiMilli THEN SinQ(PiMilli - r)
      ELSE IF r <= PiMilli + HalfPiMilli THEN -SinQ(r - PiMilli)
      ELSE -SinQ(TwoPiMilli - r)

\* Math.cos of an angle in thousandths of a radian, result in thousandths.
Cos(a) ==
  LET r == a % TwoPiMilli
  IN  IF r <= HalfPiMilli THEN CosQ(r)
      ELSE IF r <= PiMilli THEN -CosQ(PiMilli - r)
      ELSE IF r <= PiMilli + HalfPiMilli THEN -CosQ(r - PiMilli)
      ELSE CosQ(TwoPiMilli - r)

RECURSIVE AcosSearch(_, _, _)
\* The least angle in lo..hi whose cosine is at most c (cos falls on [0, pi]).
AcosSearch(c, lo, hi) ==
  IF lo >= hi THEN lo
  ELSE LET mid == (lo + hi) \div 2
       IN  IF Cos(mid) <= c THEN AcosSearch(c, lo, mid)
           ELSE AcosSearch(c, mid + 1, hi)

\* Math.acos of a value in thousandths: acos(1) is 0 and acos(-1) is pi, as
\* the library returns them; a value outside [-1, 1] has no angle (NaN).
Acos(c) ==
  IF c >= Milli THEN 0
  ELSE IF c <= -Milli THEN PiMilli
  ELSE AcosSearch(c, 0, PiMilli)

RECURSIVE SqrtSearch(_, _, _)
\* The greatest r in lo..hi with r * r <= m.
SqrtSearch(m, lo, hi) ==
  IF lo >= hi THEN lo
  ELSE LET mid == (lo + hi + 1) \div 2
       IN  IF mid * mid <= m THEN SqrtSearch(m, mid, hi)
           ELSE SqrtSearch(m, lo, mid - 1)

\* Math.sqrt of a value in millionths, result in thousandths.
Sqrt(m) == SqrtSearch(m, 0, 46340)

(***************************************************************************)
(* three.js values.                                                        *)
(***************************************************************************)
Vector3(x, y, z) == [x |-> x, y |-> y, z |-> z]

\* new THREE.Object3D(): at the origin, with the default orientation.
Object3D(position, rotation) == [position |-> position, rotation |-> rotation]

NoRotation == Vector3(0, 0, 0)

\* object.lookAt(vector): the orientation that turns the object toward
\* vector.  It is determined by the direction from the object to the vector,
\* and that direction stands for the resulting rotation.
lookAt(position, vector) ==
  Vector3(vector.x - position.x, vector.y - position.y, vector.z - position.z)

(***************************************************************************)
(* The five layouts.  A layout maps the loaded records to a target set:    *)
(* one Object3D per record, in record order.                               *)
(***************************************************************************)
LayoutKinds == {"table", "sphere", "helix", "grid", "tetrahedron"}

\* Each layout is a data.forEach((item, index) => ... push(object)) loop with
\* a 0-based index; sequences count from 1.

\* A table whose row wraps to the top once its 10 rows are full.
TableObjectWrapped(item, index) ==
  LET cols == 20
      rows == 10
      col == index % cols
      row == (index \div cols) % rows
  IN  Object3D(Vector3(col * 160 - (cols * 160) \div 2,
                       -(row * 180) + (rows * 180) \div 2,
                       0),
               NoRotation)

TableObject(item, index) ==
  LET cols == 20
      rows == 10
      col == index % cols
      row == index \div cols
  IN  Object3D(Vector3(col * 160 - (cols * 160) \div 2,
                       -(row * 180) + (rows * 180) \div 2,
                       0),
               NoRotation)

\* A table that fills its 20 x 10 cells and places no further record.
calculateTableLayoutCapped(d) ==
  [k \in 1..(IF Len(d) < 200 THEN Len(d) ELSE 200) |-> TableObject(d[k], k - 1)]

calculateTableLayout(d) == [k \in 1..Len(d) |-> TableObject(d[k], k - 1)]

\* A sphere that starts at the opposite pole: acos(1 - 2 * index / n).
SphereObjectFromNorth(n, index) ==
  LET radius == 900
      phi == Acos(Milli - Quot(2 * index * Milli, n))
      theta == (Sqrt(n * PiMicro) * phi) \div Milli
      position == Vector3(Quot(Quot(radius * Cos(theta), Milli) * Sin(phi), Milli),
                          Quot(Quot(radius * Sin(theta), Milli) * Sin(phi), Milli),
                          Quot(radius * Cos(phi), Milli))
      vector == Vector3(position.x * 2, position.y * 2, position.z * 2)
  IN  Object3D(position, lookAt(position, vector))

\* The sphere places one record; n is data.length.
SphereObject(n, index) ==
  LET radius == 900
      phi == Acos(-Milli + Quot(2 * index * Milli, n))
      theta == (Sqrt(n * PiMicro) * phi) \div Milli
      position == Vector3(Quot(Quot(radius * Cos(theta), Milli) * Sin(phi), Milli),
                          Quot(Quot(radius * Sin(theta), Milli) * Sin(phi), Milli),
                          Quot(radius * Cos(phi), Milli))
      vector == Vector3(position.x * 2, position.y * 2, position.z * 2)
  IN  Object3D(position, lookAt(position, vector))

calculateSphereLayout(d) ==
  [k \in 1..Len(d) |-> SphereObject(Len(d), k - 1)]

HelixObject(item, index) ==
  LET radius == 700
      verticalSpacing == 30
      strand == index % 2
      strandIndex == index \div 2
      phaseOffset == strand * PiMilli
      theta == strandIndex * 150 + phaseOffset
      y == -(strandIndex * verticalSpacing) + 1250
      position == Vector3(Quot(radius * Cos(theta), Milli),
                          y,
                          Quot(radius * Sin(theta), Milli))
      vector == Vector3(position.x * 2, position.y, position.z * 2)
  IN  Object3D(position, lookAt(position, vector))

calculateHelixLayout(d) == [k \in 1..Len(d) |-> HelixObject(d[k], k - 1)]

\* A grid whose y level wraps at its 4 rows.
GridObjectWrapped(item, index) ==
  LET cols == 10
      rows == 4
      depth == 5
      x == index % cols
      layer == index \div cols
      y == (layer \div depth) % rows
      z == layer % depth
  IN  Object3D(Vector3(x * 200 - (cols * 200) \div 2,
                       y * 200 - (rows * 200) \div 2,
                       z * 200 - (depth * 200) \div 2),
               NoRotation)

GridObject(item, index) ==
  LET cols == 10
      rows == 4
      depth == 5
      x == index % cols
      layer == index \div cols
      y == layer \div depth
      z == layer % depth
  IN  Object3D(Vector3(x * 200 - (cols * 200) \div 2,
                       y * 200 - (rows * 200) \div 2,
                       z * 200 - (depth * 200) \div 2),
               NoRotation)

\* A grid that places a record by its id field instead of its index.
calculateGridLayoutById(d) == [k \in 1..Len(d) |-> GridObject(d[k], d[k].id - 1)]

calculateGridLayout(d) == [k \in 1..Len(d) |-> GridObject(d[k], k - 1)]

\* The pyramid counters before the first record.
TetraStart == [layer |-> 1, row |-> 0, col |-> 0]

\* Counters that leave a row one card early (col >= row).
TetraAdvanceEarly(c) ==
  LET afterRow == IF c.col >= c.row
                  THEN [c EXCEPT !.col = 0, !.row = c.row + 1]
                  ELSE c
  IN  IF afterRow.row >= afterRow.layer
      THEN [layer |-> afterRow.layer + 1, row |-> 0, col |-> 0]
      ELSE afterRow

\* "Manage the Pyramid Counters": the two checks made before a card is placed.
TetraAdvance(c) ==
  LET afterRow == IF c.col > c.row
                  THEN [c EXCEPT !.col = 0, !.row = c.row + 1]
                  ELSE c
  IN  IF afterRow.row >= afterRow.layer
      THEN [layer |-> afterRow.layer + 1, row |-> 0, col |-> 0]
      ELSE afterRow

\* The position of a card from the counters; spacing 180 and height 160.
\* (row / 2) * 180 and (layer / 2) * 180 are row * 90 and layer * 90.
TetraObject(c) ==
  LET spacing == 180
      height == 160
  IN  Object3D(Vector3(c.col * spacing - (c.row * spacing) \div 2,
                       -(c.layer * height) + 600,
                       c.row * spacing - (c.layer * spacing) \div 2),
               NoRotation)

\* One pass of the forEach body: the record is placed with the advanced
\* counters, then col++.  The result holds the counters left behind and the
\* object pushed.
TetraPlace(c) ==
  LET placed == TetraAdvance(c)
  IN  [counters |-> [placed EXCEPT !.col = placed.col + 1],
       pushed |-> <<TetraObject(placed)>>]

\* The passes over two adjacent ranges of records, one after the other.
TetraJoin(left, right) ==
  [counters |-> right.counters, pushed |-> left.pushed \o right.pushed]

RECURSIVE TetraFold(_, _, _, _)
RECURSIVE TetraThen(_, _, _, _)
\* The forEach loop over records lo..hi, entered with counters c.  The range
\* is walked in halves: the left half is completed first, and the right half
\* is entered with the counters the left half leaves behind.
TetraFold(d, lo, hi, c) ==
  IF lo > hi THEN [counters |-> c, pushed |-> <<>>]
  ELSE IF lo = hi THEN TetraPlace(c)
  ELSE CHOOSE both \in {TetraThen(d, (lo + hi) \div 2, hi, left) :
                          left \in {TetraFold(d, lo, (lo + hi) \div 2, c)}} : TRUE

TetraThen(d, mid, hi, left) ==
  TetraJoin(left, TetraFold(d, mid + 1, hi, left.counters))

calculateTetrahedronLayout(d) == TetraFold(d, 1, Len(d), TetraStart).pushed

\* calculateLayouts(data): every layout is recomputed from the same records.
calculateLayouts(d) ==
  [table       |-> calculateTableLayout(d),
   sphere      |-> calculateSphereLayout(d),
   helix       |-> calculateHelixLayout(d),
   grid        |-> calculateGridLayout(d),
   tetrahedron |-> calculateTetrahedronLayout(d)]

(***************************************************************************)
(* The record provider (DataManager).                                      *)
(***************************************************************************)
\* getColorClass(netWorth): the card colour of a record.
getColorClass(netWorth) ==
  IF netWorth < 100000 THEN "low-worth"
  ELSE IF netWorth <= 200000 THEN "medium-worth"
  ELSE "high-worth"

\* The loads differ in the fields of their records, not only in their count.
Variants == {0, 1}

\* One record of a load: ids count from 1; the other fields vary by load.
Item(index, v) ==
  [id |-> index + 1, netWorth |-> ((index + v) % 3) * 100000 + 50000 * (v + 1)]

\* The records a load of n items yields.
Records(n, v) == [k \in 1..n |-> Item(k - 1, v)]

(***************************************************************************)
(* The tween library as the code uses it.                                  *)
(***************************************************************************)
\* The base duration passed by createObjects and changeLayout.
DefaultDuration == 2000
\* The time between two animation frames.
FrameMs == 1000

\* Math.random(): the values of successive calls, in thousandths.  A stream
\* repeats; the streams mix the least value, a middle one and one close to 1
\* so that the objects of one call draw different values.
RandomStreams == {<<0, 999, 999, 500>>, <<999, 0>>}

\* The j-th value drawn from a stream, j = 1, 2, ...
Draw(stream, j) == stream[((j - 1) % Len(stream)) + 1]

\* Math.random() * 4000 - 2000.
RandomCoordinate(fraction) == (fraction * 4000) \div Milli - 2000

\* 2 ^ (-e / 1000) in thousandths, linear between whole exponents.
Pow2Neg(e) ==
  LET whole == e \div Milli
      frac == e % Milli
      base == Milli \div (2 ^ whole)
  IN  (base * (2 * Milli - frac)) \div (2 * Milli)

\* TWEEN.Easing.Exponential.InOut on a progress k in thousandths.
ExponentialInOut(k) ==
  IF k = 0 THEN 0
  ELSE IF k = Milli THEN Milli
  ELSE IF 2 * k < Milli
       THEN Pow2Neg(10 * (Milli - 2 * k)) \div 2
       ELSE Milli - Pow2Neg(10 * (2 * k - Milli)) \div 2

\* new TWEEN.Tween(object[property]).to(end, duration).easing(...).start():
\* the start values are read from the object when the tween starts; elapsed
\* is the time since the start.
Tween(kind, index, from, to, duration) ==
  [kind |-> kind, object |-> index, from |-> from, to |-> to,
   duration |-> duration, elapsed |-> 0]

\* A transform that does not cancel: the registered tweens stay.
removeNone(ts) == ts

\* TWEEN.removeAll(): no interpolation stays registered.
removeAll(ts) == <<>>

\* Math.random() * duration + duration.
RandomDuration(fraction, duration) == (fraction * duration) \div Milli + duration

\* Progress of a tween, in thousandths, clamped at 1.
Progress(tw) ==
  IF tw.elapsed >= tw.duration THEN Milli
  ELSE (tw.elapsed * Milli) \div tw.duration

\* start + (end - start) * value for one coordinate.
Interpolate(start, end, value) == start + Quot((end - start) * value, Milli)

\* The interpolated triple of a tween.
TweenValue(tw) ==
  LET value == ExponentialInOut(Progress(tw))
  IN  Vector3(Interpolate(tw.from.x, tw.to.x, value),
              Interpolate(tw.from.y, tw.to.y, value),
              Interpolate(tw.from.z, tw.to.z, value))

\* One tween writes its interpolated values into the object it animates.
ApplyTween(objs, tw) ==
  IF tw.kind = "driver" \/ tw.object > Len(objs) THEN objs
  ELSE IF tw.kind = "position"
       THEN [objs EXCEPT ![tw.object].position = TweenValue(tw)]
       ELSE [objs EXCEPT ![tw.object].rotation = TweenValue(tw)]

\* The registered tweens after a frame: the clock has advanced.
Advanced(ts) == [k \in 1..Len(ts) |-> [ts[k] EXCEPT !.elapsed = @ + FrameMs]]

RECURSIVE UpdateAll(_, _, _)
\* TWEEN.update(): every registered tween is updated, in registration order.
UpdateAll(ts, k, objs) ==
  IF k > Len(ts) THEN objs
  ELSE UpdateAll(ts, k + 1, ApplyTween(objs, ts[k]))

\* A tween stays registered until its progress reaches 1.
Unfinished(ts) == SelectSeq(ts, LAMBDA tw : Progress(tw) < Milli)

(***************************************************************************)
(* VisualizationApp.                                                       *)
(***************************************************************************)
\* createElementCard(item): the card shows fields of the record.
createElementCard(item) ==
  [className |-> getColorClass(item.netWorth), number |-> item.id]

RECURSIVE TransformLoop(_, _, _, _, _, _)
\* this.objects.forEach((object, index) => ...): two tweens per object, each
\* with its own random duration.  An object without a target reads
\* target.position of undefined, which throws and leaves the tweens started
\* so far registered.
TransformLoop(objs, items, duration, stream, k, acc) ==
  IF k > Len(objs) THEN [tweens |-> acc, thrown |-> "none"]
  ELSE IF k > Len(items) THEN [tweens |-> acc, thrown |-> "TypeError"]
  ELSE TransformLoop(objs, items, duration, stream, k + 1,
         acc \o <<Tween("position", k, objs[k].position, items[k].position,
                        RandomDuration(Draw(stream, 2 * k - 1), duration)),
                  Tween("rotation", k, objs[k].rotation, items[k].rotation,
                        RandomDuration(Draw(stream, 2 * k), duration))>>)

\* transform(targets, duration): the registered tweens and the error raised.
transform(objs, registered, items, duration, stream) ==
  LET loop == TransformLoop(objs, items, duration, stream, 1,
                            removeAll(registered))
  IN  IF loop.thrown # "none" THEN loop
      ELSE [tweens |-> Append(loop.tweens,
                              Tween("driver", 0, NoRotation, NoRotation,
                                    duration * 2)),
            thrown |-> "none"]

\* Names a caller may pass to changeLayout: the five layouts, a name that is
\* no property at all, and a name every object inherits from Object.prototype.
InheritedNames == {"constructor"}
LayoutNames == LayoutKinds \cup {"nonexistent"} \cup InheritedNames

\* this.targets[layoutName]: an own property is a target set; an inherited
\* one is a function, truthy and without indexed elements; else undefined.
TargetsProperty(tg, name) ==
  IF name \in LayoutKinds THEN [truthy |-> TRUE, items |-> tg[name]]
  ELSE IF name \in InheritedNames THEN [truthy |-> TRUE, items |-> <<>>]
  ELSE [truthy |-> FALSE, items |-> <<>>]

EmptyTargets == [kind \in LayoutKinds |-> <<>>]

Init ==
  /\ data = <<>>
  /\ objects = <<>>
  /\ targets = EmptyTargets
  /\ currentLayout = "table"
  /\ tweens = <<>>
  /\ rendered = FALSE
  /\ thrown = "none"
  /\ requested = <<>>
  /\ cancelled = 0
  /\ transforms = 0

\* dataManager.init(): a load replaces the records.
LoadData(n, v) ==
  /\ data' = Records(n, v)
  /\ rendered' = FALSE
  /\ thrown' = "none"
  /\ UNCHANGED <<objects, targets, currentLayout, tweens, requested, cancelled,
                 transforms>>

\* createObjects(data) with freshly loaded records: every object starts at a
\* random position, the layouts are computed and the table is approached.
CreateObjects(d, coordinates, stream) ==
  LET created == [k \in 1..Len(d) |->
                    [element |-> createElementCard(d[k]),
                     position |->
                       Vector3(RandomCoordinate(Draw(coordinates, 3 * k - 2)),
                               RandomCoordinate(Draw(coordinates, 3 * k - 1)),
                               RandomCoordinate(Draw(coordinates, 3 * k))),
                     rotation |-> NoRotation]]
      layouts == calculateLayouts(d)
      started == transform(created, tweens, layouts.table, DefaultDuration, stream)
  IN  /\ transforms < MaxTransforms
      /\ data' = d
      /\ objects' = created
      /\ targets' = layouts
      /\ tweens' = started.tweens
      /\ thrown' = started.thrown
      /\ requested' = layouts.table
      /\ cancelled' = Len(tweens)
      /\ transforms' = transforms + 1
      /\ rendered' = FALSE
      /\ UNCHANGED currentLayout

\* transform(targets, duration) called with any target array.
Transform(items, stream) ==
  LET started == transform(objects, tweens, items, DefaultDuration, stream)
  IN  /\ transforms < MaxTransforms
      /\ tweens' = started.tweens
      /\ thrown' = started.thrown
      /\ requested' = items
      /\ cancelled' = Len(tweens)
      /\ transforms' = transforms + 1
      /\ rendered' = FALSE
      /\ UNCHANGED <<data, objects, targets, currentLayout>>

\* changeLayout(layoutName).
ChangeLayout(name, stream) ==
  LET property == TargetsProperty(targets, name)
      started == transform(objects, tweens, property.items, DefaultDuration, stream)
  IN  IF property.truthy
      THEN /\ transforms < MaxTransforms
           /\ currentLayout' = name
           /\ tweens' = started.tweens
           /\ thrown' = started.thrown
           /\ requested' = property.items
           /\ cancelled' = Len(tweens)
           /\ transforms' = transforms + 1
           /\ rendered' = FALSE
           /\ UNCHANGED <<data, objects, targets>>
      ELSE /\ thrown' = "none"
           /\ rendered' = FALSE
           /\ UNCHANGED <<data, objects, targets, currentLayout, tweens,
                          requested, cancelled, transforms>>

\* animate(): one frame; TWEEN.update() moves the objects and the driver
\* tween's onUpdate calls render().
Animate ==
  /\ objects' = UpdateAll(Advanced(tweens), 1, objects)
  /\ tweens' = Unfinished(Advanced(tweens))
  /\ rendered' = (\E k \in 1..Len(tweens) : tweens[k].kind = "driver")
  /\ thrown' = "none"
  /\ UNCHANGED <<data, targets, currentLayout, requested, cancelled, transforms>>

\* calculateLayouts(data) on its own.
CalculateLayouts ==
  /\ targets' = calculateLayouts(data)
  /\ rendered' = FALSE
  /\ thrown' = "none"
  /\ UNCHANGED <<data, objects, currentLayout, tweens, requested, cancelled,
                 transforms>>

\* A target array of a transform call: a target set of the application, the
\* set without its last element, or the set with one element more.
Resized(items, delta) ==
  IF delta < 0 THEN SubSeq(items, 1, Len(items) - 1)
  ELSE IF delta > 0 THEN Append(items, Object3D(NoRotation, NoRotation))
  ELSE items

TransformArguments == {Resized(targets.helix, delta) : delta \in {-1, 0, 1}}

Next ==
  \/ \E n \in 0..MaxRecords, coordinates \in RandomStreams, stream \in RandomStreams :
       CreateObjects(Records(n, 0), coordinates, stream)
  \/ \E items \in TransformArguments, stream \in RandomStreams :
       Transform(items, stream)
  \/ \E name \in LayoutNames, stream \in RandomStreams :
       ChangeLayout(name, stream)
  \/ Animate

Spec == Init /\ [][Next]_vars

(***************************************************************************)
(* The layout computation on loads of every size up to and beyond the      *)
(* nominal capacity of the table (20 columns by 10 rows).                  *)
(***************************************************************************)
NominalCapacity == 20 * 10

\* The record counts of the first load: the small ones, and those around and
\* beyond the nominal capacity.
LoadCounts ==
  (0..MaxLoad) \cup ((NominalCapacity - 1)..(NominalCapacity + MaxOverflow))

LayoutInit ==
  /\ data \in {Records(n, v) : n \in LoadCounts, v \in Variants}
  /\ objects = <<>>
  /\ targets = EmptyTargets
  /\ currentLayout = "table"
  /\ tweens = <<>>
  /\ rendered = FALSE
  /\ thrown = "none"
  /\ requested = <<>>
  /\ cancelled = 0
  /\ transforms = 0

LayoutNext ==
  \/ CalculateLayouts
  \/ \E n \in 0..MaxReload, v \in Variants : LoadData(n, v)

LayoutSpec == LayoutInit /\ [][LayoutNext]_vars

(***************************************************************************)
(* Properties of the layout computation (LayoutSpec).                      *)
(***************************************************************************)
\* Triangular and tetrahedral numbers.
Triangular(r) == (r * (r + 1)) \div 2
Tetrahedral(k) == (k * (k + 1) * (k + 2)) \div 6

\* Where a pyramid of triangular layers 1, 3, 6, 10, ... holds its i-th record
\* (i from 0): layer k holds rows 0..k-1, row r holds r + 1 records.
RECURSIVE PyramidLayerFrom(_, _)
PyramidLayerFrom(i, k) == IF i < Tetrahedral(k) THEN k ELSE PyramidLayerFrom(i, k + 1)
PyramidLayer(i) == PyramidLayerFrom(i, 1)

RECURSIVE PyramidRowFrom(_, _)
PyramidRowFrom(offset, r) ==
  IF offset < Triangular(r + 1) THEN r ELSE PyramidRowFrom(offset, r + 1)

\* The (layer, row, col) of the i-th record of the pyramid.
PyramidPlace(i) ==
  LET layer == PyramidLayer(i)
      offset == i - Tetrahedral(layer - 1)
      row == PyramidRowFrom(offset, 0)
  IN  [layer |-> layer, row |-> row, col |-> offset - Triangular(row)]

\* The transform the layout of a kind computes for record index i of n.
TransformOfIndex(kind, d, i) ==
  IF kind = "table" THEN TableObject(d[i + 1], i)
  ELSE IF kind = "sphere" THEN SphereObject(Len(d), i)
  ELSE IF kind = "helix" THEN HelixObject(d[i + 1], i)
  ELSE IF kind = "grid" THEN GridObject(d[i + 1], i)
  ELSE TetraObject(PyramidPlace(i))

\* C5: after calculateLayouts every one of the five target sets holds exactly
\* one transform per loaded record, the i-th being the one computed for record
\* index i, whatever the sets held before (nothing of an earlier load stays).
C5_OneTransformPerRecord ==
  [][CalculateLayouts =>
       \A kind \in LayoutKinds :
         /\ Len(targets'[kind]) = Len(data)
         /\ \A k \in 1..Len(data) :
              targets'[kind][k] = TransformOfIndex(kind, data, k - 1)]_vars

\* C5 witness: the layouts of a load beyond the nominal capacity.
C5_Witness ==
  /\ Len(data) > NominalCapacity
  /\ \A kind \in LayoutKinds : Len(targets[kind]) = Len(data)

\* The counters recovered from a tetrahedron position.
CountersOf(p) ==
  LET layer == (600 - p.y) \div 160
      row == (p.z + 90 * layer) \div 180
      col == (p.x + 90 * row) \div 180
  IN  [layer |-> layer, row |-> row, col |-> col]

\* C6: the tetrahedron places the records, in order, in layers of triangular
\* sizes 1, 3, 6, 10, ...: layer k receives k rows of sizes 1..k, record 0 is
\* in layer 1, records 1-3 in layer 2, records 4-9 in layer 3, record 10 opens
\* layer 4, and every placement has 0 <= col <= row < layer.
C6_TetrahedronTriangularLayers ==
  \A k \in 1..Len(targets.tetrahedron) :
    LET i == k - 1
        object == targets.tetrahedron[k]
        c == CountersOf(object.position)
    IN  /\ object = TetraObject(c)
        /\ c = PyramidPlace(i)
        /\ 0 <= c.col /\ c.col <= c.row /\ c.row < c.layer
        /\ (i = 0 => c.layer = 1)
        /\ (i \in 1..3 => c.layer = 2)
        /\ (i \in 4..9 => c.layer = 3)
        /\ (i = 10 => c = [layer |-> 4, row |-> 0, col |-> 0])

\* C6 witness: a load whose record 10 has opened layer 4 and whose record 20
\* has opened layer 5.
C6_Witness ==
  /\ Len(targets.tetrahedron) > 20
  /\ CountersOf(targets.tetrahedron[11].position) = [layer |-> 4, row |-> 0, col |-> 0]
  /\ CountersOf(targets.tetrahedron[21].position) = [layer |-> 5, row |-> 0, col |-> 0]

\* C8: for every index i of the grid layout, (x + 1000) / 200, (y + 400) / 200
\* and (z + 500) / 200 are exactly i mod 10, floor(floor(i / 10) / 5) and
\* floor(i / 10) mod 5, with the first in 0..9 and the last in 0..4.
C8_GridInvertsToIndex ==
  \A k \in 1..Len(targets.grid) :
    LET i == k - 1
        p == targets.grid[k].position
    IN  /\ (p.x + 1000) % 200 = 0
        /\ (p.y + 400) % 200 = 0
        /\ (p.z + 500) % 200 = 0
        /\ (p.x + 1000) \div 200 = i % 10
        /\ (p.y + 400) \div 200 = (i \div 10) \div 5
        /\ (p.z + 500) \div 200 = (i \div 10) % 5
        /\ (p.x + 1000) \div 200 \in 0..9
        /\ (p.z + 500) \div 200 \in 0..4

\* C8 witness: a grid with an index beyond 199, on the fifth y level.
C8_Witness ==
  /\ Len(targets.grid) > 200
  /\ targets.grid[201].position = Vector3(-1000, 400, -500)

\* Records that carry nothing but their place in the sequence.
BlankRecords(n) == [k \in 1..n |-> [id |-> 0, netWorth |-> 0]]

\* C9: the layouts depend only on the ordinal index of a record and on the
\* record count: the target sets computed for any records are those computed
\* for as many blank records, and computing again for a sequence of the same
\* length changes nothing.
C9_LayoutsIgnoreRecordFields ==
  [][CalculateLayouts =>
       /\ targets' = calculateLayouts(BlankRecords(Len(data)))
       /\ (\A kind \in LayoutKinds : Len(targets[kind]) = Len(data)) => targets' = targets
    ]_vars

\* C9 witness: layouts computed for records whose fields differ from one
\* another and from the blank record.
C9_Witness ==
  /\ Len(data) > 2
  /\ data[1].netWorth # data[2].netWorth
  /\ data[1].netWorth # 0
  /\ Len(targets.table) = Len(data)
  /\ targets.helix = calculateHelixLayout(BlankRecords(Len(data)))

Moving(i) ==
  \E k \in 1..Len(tweens) : tweens[k].kind = "position" /\ tweens[k].object = i

C2_MismatchRaisesLengthMismatch ==
  [][\A items \in TransformArguments, stream \in RandomStreams :
       (Len(items) # Len(objects) /\ Transform(items, stream)) =>
         thrown' = "LengthMismatch"]_vars

\* C3 as claimed: a transform call with mismatched lengths schedules nothing,
\* leaves the registered interpolations as they were and moves no object.
C3_MismatchHasNoSideEffects ==
  [][\A items \in TransformArguments, stream \in RandomStreams :
       (Len(items) # Len(objects) /\ Transform(items, stream)) =>
         (tweens' = tweens /\ objects' = objects)]_vars

\* C4 as claimed: changeLayout with a name that is none of the five layouts
\* raises nothing, keeps currentLayout, starts and cancels no transition and
\* moves no object.
C4_UnknownNameIsIgnored ==
  [][\A name \in LayoutNames \ LayoutKinds, stream \in RandomStreams :
       ChangeLayout(name, stream) =>
         /\ thrown' = "none"
         /\ currentLayout' = currentLayout
         /\ tweens' = tweens
         /\ objects' = objects]_vars

\* The time a registered tween still has to run.
Remaining(tw) == tw.duration - tw.elapsed

\* Every registered interpolation of an object lasts d <= duration < 2d and is
\* outlasted by a registered driver of duration 2d.
DriverCovers ==
  \A k \in 1..Len(tweens) :
    tweens[k].kind # "driver" =>
      /\ DefaultDuration <= tweens[k].duration
      /\ tweens[k].duration < 2 * DefaultDuration
      /\ \E j \in 1..Len(tweens) :
           /\ tweens[j].kind = "driver"
           /\ tweens[j].duration = 2 * DefaultDuration
           /\ Remaining(tweens[j]) >= Remaining(tweens[k])

\* C7 as claimed: within a transition of base duration d every interpolation
\* of an object lasts d <= duration < 2d and the driver lasts 2d, so that the
\* driver is registered, and render is called, on every frame on which an
\* object is still interpolated.
C7_DriverCoversInterpolations ==
  /\ []DriverCovers
  /\ [][(Animate /\ \E k \in 1..Len(tweens) : tweens[k].kind # "driver") =>
          rendered']_vars

\* A createObjects(data) call with any load the model draws.
CreateObjectsCalled ==
  \E n \in 0..MaxRecords : \E coordinates \in RandomStreams :
    \E stream \in RandomStreams :
      CreateObjects(Records(n, 0), coordinates, stream)

\* C11 as claimed: a createObjects call made while currentLayout names one of
\* the five layouts leaves the objects driven to the target set that
\* currentLayout names, so that a reload after changeLayout('sphere') does not
\* approach one layout while currentLayout names another.
C11_ActiveLayoutNamesDrivenTargets ==
  [][(CreateObjectsCalled /\ currentLayout \in LayoutKinds) =>
       requested' = targets'[currentLayout']]_vars

(***************************************************************************)
(* Distinct target positions (LayoutSpec).                                 *)
(***************************************************************************)
\* The layouts that place the records on a lattice.
LatticeKinds == {"table", "grid", "tetrahedron"}

\* The target positions of a target set, as a set.
PositionsOf(items) == {items[k].position : k \in 1..Len(items)}

\* C12: in the table, grid and tetrahedron layouts no two records of a load
\* have the same target position, for loads beyond the nominal capacity of
\* 200 as well: the table row is floor(i / 20) with y = -(row * 180) + 900 and
\* x = (i mod 20) * 160 - 1600, and rows and grid y levels grow without
\* wrapping.
C12_LatticePositionsDistinct ==
  /\ \A kind \in LatticeKinds :
       Cardinality(PositionsOf(targets[kind])) = Len(targets[kind])
  /\ \A k \in 1..Len(targets.table) :
       LET i == k - 1
           row == i \div 20
       IN  targets.table[k].position =
             Vector3((i % 20) * 160 - 1600, -(row * 180) + 900, 0)
  /\ \A k \in 1..Len(targets.grid) :
       targets.grid[k].position.y = ((k - 1) \div 50) * 200 - 400

\* C12 witness: a load beyond the nominal capacity whose record 200 has the
\* x and z of record 0 in the table and in the grid, on a row and on a y level
\* of its own.
C12_Witness ==
  /\ Len(targets.table) > NominalCapacity
  /\ Len(targets.grid) > NominalCapacity
  /\ Len(targets.tetrahedron) > NominalCapacity
  /\ targets.table[NominalCapacity + 1].position = Vector3(-1600, -900, 0)
  /\ targets.table[1].position = Vector3(-1600, 900, 0)
  /\ targets.grid[NominalCapacity + 1].position = Vector3(-1000, 400, -500)
  /\ targets.grid[1].position = Vector3(-1000, -400, -500)

====
